---- MODULE Spec2Model ----
(***************************************************************************)
(* Model of the GDC methylation utilities:                                 *)
(*   gdc_data_collector.py  builds the sqlite tables methylation,          *)
(*                          patientid, idmap and clinical_data;            *)
(*   app.py                 runs the cohort query over those tables.       *)
(* Strings are sequences of one-character strings, so that the string      *)
(* operations of the code (replace, split, rstrip, substring test) are     *)
(* computed and not assumed.  Beta values are integers in thousandths.     *)
(***************************************************************************)
EXTENDS Integers, Sequences, FiniteSets, TLC

VARIABLES
  pc,             \* position of the running program
  methylation,    \* persisted table 'methylation' (NoTable when absent)
  patientid,      \* persisted table 'patientid'
  idmap,          \* persisted table 'idmap'
  clinical_data,  \* persisted table 'clinical_data'
  tcga_files,     \* create_methylation_db: the files selected for loading
  i,              \* create_methylation_db: loop index
  frames,         \* create_methylation_db: one data frame per loaded file
  df_patid,       \* create_methylation_db: the File_Name/Patient_ID frame
  df,             \* create_methylation_db: the merged frame
  committed,      \* tables of the last completed create_methylation_db
  sheet,          \* create_mapping_db: rows of the sample sheet read
  rows,           \* app.py: candidate file names fetched by the first query
  r,              \* app.py: number of candidates processed
  df_results,     \* app.py: the result frame
  AGE,            \* app.py: slider value
  VITAL_STATUS,   \* app.py: select box value
  CPG             \* app.py: slider value, in thousandths

vars == <<pc, methylation, patientid, idmap, clinical_data, tcga_files, i,
          frames, df_patid, df, committed, sheet, rows, r, df_results,
          AGE, VITAL_STATUS, CPG>>

ingestVars == <<tcga_files, i, frames, df_patid, df, committed>>
queryVars == <<rows, r, df_results, AGE, VITAL_STATUS, CPG>>

\* pd.DataFrame(): a frame without columns
NoFrame == [cols |-> <<>>, rows |-> <<>>]

\* a table that does not exist in gdc.db, with and without named columns
NoTable == [exists |-> FALSE, cols |-> <<>>, rows |-> <<>>]
NoRows == [exists |-> FALSE, rows |-> <<>>]

\* DataFrame.to_sql(name, conn, if_exists='replace', index=False)
ToSql(frame) == [exists |-> TRUE, cols |-> frame.cols, rows |-> frame.rows]
RowsToSql(recs) == [exists |-> TRUE, rows |-> recs]

\* a missing beta value (NaN in pandas, NULL in sqlite); thousandths otherwise
NaN == -1

\* ------------------------------------------------------------------------
\* Bounds of the model
\* ------------------------------------------------------------------------
MaxFiles == 2
MaxSheet == 2
MaxClinical == 2

\* ------------------------------------------------------------------------
\* Strings
\* ------------------------------------------------------------------------
Range(s) == {s[k] : k \in 1..Len(s)}

\* sub in s
Contains(s, sub) ==
  \E k \in 0..(Len(s) - Len(sub)) : SubSeq(s, k + 1, k + Len(sub)) = sub

\* s.replace(old, new) for one-character old and new
Replace(s, old, new) == [k \in 1..Len(s) |-> IF s[k] = old THEN new ELSE s[k]]

\* position of the first / last occurrence of character c in s, 0 if none
FirstIndex(s, c) ==
  IF \E k \in 1..Len(s) : s[k] = c
    THEN CHOOSE k \in 1..Len(s) : s[k] = c /\ \A j \in 1..(k - 1) : s[j] # c
    ELSE 0

LastIndex(s, c) ==
  IF \E k \in 1..Len(s) : s[k] = c
    THEN CHOOSE k \in 1..Len(s) : s[k] = c /\ \A j \in (k + 1)..Len(s) : s[j] # c
    ELSE 0

\* s.split('.')[0]
SplitFirst(s, c) ==
  IF FirstIndex(s, c) = 0 THEN s ELSE SubSeq(s, 1, FirstIndex(s, c) - 1)

\* Path(p).stem of a base name: the name without its last suffix; a leading
\* dot does not start a suffix
Stem(name) ==
  IF LastIndex(name, ".") <= 1 THEN name
  ELSE SubSeq(name, 1, LastIndex(name, ".") - 1)

Digit(d) == <<"0", "1", "2", "3", "4", "5", "6", "7", "8", "9">>[d + 1]

\* str(n) for a natural number
RECURSIVE Str(_)
Str(n) == IF n < 10 THEN <<Digit(n)>> ELSE Str(n \div 10) \o <<Digit(n % 10)>>

Methylation == <<"m", "e", "t", "h", "y", "l", "a", "t", "i", "o", "n">>
Patient == <<"P", "a", "t", "i", "e", "n", "t">>
CPG_ISLANDS == <<"C", "P", "G", "_", "I", "S", "L", "A", "N", "D", "S">>
TxtExt == <<".", "t", "x", "t">>

\* '.methylation_array.sesame.level3betas.txt'
Suffix ==
  <<".">> \o Methylation \o <<"_", "a", "r", "r", "a", "y">>
  \o <<".", "s", "e", "s", "a", "m", "e">>
  \o <<".", "l", "e", "v", "e", "l", "3", "b", "e", "t", "a", "s">>
  \o TxtExt

\* ------------------------------------------------------------------------
\* Input files found by glob (the environment of create_methylation_db)
\* ------------------------------------------------------------------------
K1 == <<"c", "g", "1">>
K2 == <<"c", "g", "2">>

\* a measurement file: its directory, its base name, whether pandas can
\* read it as a two-column table, and its (location, beta value) lines
File(dir, name, readable, table) ==
  [dir |-> dir, name |-> name, readable |-> readable, table |-> table]

FileUniverse ==
  { File(<<"d">>, <<"a", "-", "4">> \o Suffix, TRUE, <<<<K1, 995>>, <<K2, 900>>>>),
    File(<<"e">>, <<"a", "-", "4">> \o Suffix, TRUE, <<<<K2, NaN>>, <<K1, 1000>>>>),
    File(<<"d">>, <<"a", "_", "4">> \o Suffix, TRUE, <<<<K1, 993>>>>),
    File(<<"e">>, <<"c", "7">> \o Suffix, TRUE, <<<<K1, 992>>, <<K2, 993>>>>),
    File(<<"d">>, <<"c", "3">> \o Suffix, FALSE, <<>>),
    File(<<"d">>, <<"n">> \o TxtExt, TRUE, <<<<K1, 999>>, <<K2, 999>>>>) }

\* the lists glob can return: distinct paths, in any order
FileLists ==
  UNION { { s \in [1..n -> FileUniverse] : \A j, k \in 1..n : j # k => s[j] # s[k] }
          : n \in 0..MaxFiles }

PathOf(f) == f.dir \o <<"/">> \o f.name

\* ------------------------------------------------------------------------
\* create_methylation_db
\* ------------------------------------------------------------------------
\* [file for file in all_files if "methylation" in file]
TcgaFiles(all_files) == SelectSeq(all_files, LAMBDA f : Contains(PathOf(f), Methylation))

\* Path(tcga_file).stem.split('.')[0]
FileName(f) == SplitFirst(Stem(f.name), ".")

\* the identifier without the ordinal of the file
PatientId_NoOrdinal(n, f) == Replace(Patient \o <<"-">> \o FileName(f), "-", "_")

\* 'Patient' + str(i) + '-' + file_name, hyphens replaced by underscores
PatientId(n, f) == Replace(Patient \o Str(n) \o <<"-">> \o FileName(f), "-", "_")

\* pd.read_table(...) with df.columns = ['CPG_ISLANDS', patient_id]
Frame(n, f) == [cols |-> <<CPG_ISLANDS, PatientId(n, f)>>, rows |-> f.table]

\* the rows of an inner join on the first column: left row order, and for
\* each left row the matching right rows in their order
RECURSIVE Matches(_, _)
Matches(lrow, rrows) ==
  IF rrows = <<>> THEN <<>>
  ELSE (IF Head(rrows)[1] = lrow[1] THEN <<lrow \o Tail(Head(rrows))>> ELSE <<>>)
       \o Matches(lrow, Tail(rrows))

RECURSIVE JoinRows(_, _)
JoinRows(lrows, rrows) ==
  IF lrows = <<>> THEN <<>>
  ELSE Matches(Head(lrows), rrows) \o JoinRows(Tail(lrows), rrows)

\* pd.merge(left, right, on='CPG_ISLANDS'): a value column whose name occurs
\* on both sides gets the suffix _x on the left and _y on the right
Merge(left, right) ==
  LET lnames == Range(Tail(left.cols))
      rnames == Range(Tail(right.cols))
      lcols == [k \in 1..(Len(left.cols) - 1) |->
                  IF left.cols[k + 1] \in rnames
                    THEN left.cols[k + 1] \o <<"_", "x">> ELSE left.cols[k + 1]]
      rcols == [k \in 1..(Len(right.cols) - 1) |->
                  IF right.cols[k + 1] \in lnames
                    THEN right.cols[k + 1] \o <<"_", "y">> ELSE right.cols[k + 1]]
  IN [cols |-> <<CPG_ISLANDS>> \o lcols \o rcols,
      rows |-> JoinRows(left.rows, right.rows)]

\* connect, drop both tables, glob and filter the files
StartBuild ==
  /\ pc \in {"idle", "done", "failed"}
  /\ \E all_files \in FileLists : tcga_files' = TcgaFiles(all_files)
  /\ methylation' = NoTable
  /\ patientid' = NoRows
  /\ frames' = <<>>
  /\ df_patid' = <<>>
  /\ df' = NoFrame
  /\ i' = 0
  /\ pc' = "load"
  /\ UNCHANGED <<idmap, clinical_data, committed, sheet>>
  /\ UNCHANGED queryVars

\* one iteration of the loading loop; read_table raises on a file it cannot
\* parse and the run ends there
LoadFile ==
  /\ pc = "load"
  /\ i < Len(tcga_files)
  /\ LET f == tcga_files[i + 1] IN
       IF f.readable
         THEN /\ df_patid' = Append(df_patid,
                     [File_Name |-> FileName(f), Patient_ID |-> PatientId(i, f)])
              /\ frames' = Append(frames, Frame(i, f))
              /\ i' = i + 1
              /\ pc' = "load"
         ELSE /\ pc' = "failed"
              /\ UNCHANGED <<df_patid, frames, i>>
  /\ UNCHANGED <<methylation, patientid, idmap, clinical_data, tcga_files, df,
                 committed, sheet>>
  /\ UNCHANGED queryVars

\* df_patid.to_sql('patientid'), then df = frames[0], which raises
\* IndexError when no file was loaded
WritePatientId ==
  /\ pc = "load"
  /\ i = Len(tcga_files)
  /\ patientid' = RowsToSql(df_patid)
  /\ IF frames = <<>>
       THEN pc' = "failed" /\ UNCHANGED <<df, i>>
       ELSE pc' = "merge" /\ df' = frames[1] /\ i' = 0
  /\ UNCHANGED <<methylation, idmap, clinical_data, tcga_files, frames,
                 df_patid, committed, sheet>>
  /\ UNCHANGED queryVars

\* one iteration of: for i in range(len(frames)): df = pd.merge(df, frames[i])
MergeStep ==
  /\ pc = "merge"
  /\ i < Len(frames)
  /\ df' = Merge(df, frames[i + 1])
  /\ i' = i + 1
  /\ UNCHANGED <<pc, methylation, patientid, idmap, clinical_data, tcga_files,
                 frames, df_patid, committed, sheet>>
  /\ UNCHANGED queryVars

\* df.to_sql('methylation'), commit, close
WriteMethylation ==
  /\ pc = "merge"
  /\ i = Len(frames)
  /\ methylation' = ToSql(df)
  /\ committed' = [methylation |-> ToSql(df), patientid |-> patientid]
  /\ pc' = "done"
  /\ UNCHANGED <<patientid, idmap, clinical_data, tcga_files, i, frames,
                 df_patid, df, sheet>>
  /\ UNCHANGED queryVars

NoQuery ==
  /\ rows = <<>>
  /\ r = 0
  /\ df_results = <<>>
  /\ AGE = 40
  /\ VITAL_STATUS = "Alive"
  /\ CPG = 992

NoIngest ==
  /\ tcga_files = <<>>
  /\ i = 0
  /\ frames = <<>>
  /\ df_patid = <<>>
  /\ df = NoFrame
  /\ committed = [methylation |-> methylation, patientid |-> patientid]

InitIngest ==
  /\ pc = "idle"
  /\ methylation = NoTable
  /\ patientid = NoRows
  /\ idmap = NoRows
  /\ clinical_data = NoRows
  /\ sheet = <<>>
  /\ NoIngest
  /\ NoQuery

NextIngest ==
  \/ StartBuild
  \/ LoadFile
  \/ WritePatientId
  \/ MergeStep
  \/ WriteMethylation

SpecIngest == InitIngest /\ [][NextIngest]_vars

\* ------------------------------------------------------------------------
\* Properties of create_methylation_db
\* ------------------------------------------------------------------------
Keys(frame) == [k \in 1..Len(frame.rows) |-> frame.rows[k][1]]
KeySet(frame) == Range(Keys(frame))
NoDuplicateKeys(frame) == Cardinality(KeySet(frame)) = Len(frame.rows)
SampleIds == [k \in 1..Len(frames) |-> frames[k].cols[2]]

SharedKeySet ==
  /\ frames # <<>>
  /\ \A k \in 1..Len(frames) :
       KeySet(frames[k]) = KeySet(frames[1]) /\ NoDuplicateKeys(frames[k])

\* C1: a completed build over n samples that share one duplicate-free key
\* set persists a matrix with the key column and exactly n sample columns,
\* named by the sample ids in order, and one row per key in the first
\* sample's row order.
C1_MatrixShape ==
  (pc = "done" /\ SharedKeySet) =>
    /\ methylation.cols = <<CPG_ISLANDS>> \o SampleIds
    /\ Len(methylation.rows) = Cardinality(KeySet(frames[1]))
    /\ Keys(methylation) = Keys(frames[1])

\* C2: when some sample's key set differs from the first sample's, the build
\* does not complete and no merged matrix is persisted.
C2_MismatchFails ==
  (\E k \in 1..Len(frames) : KeySet(frames[k]) # KeySet(frames[1])) =>
    (pc # "done" /\ ~methylation.exists)

\* C3: after a failed build the persisted methylation and patientid tables
\* are those of the last completed build.
C3_FailureKeepsTables ==
  pc = "failed" =>
    (methylation = committed.methylation /\ patientid = committed.patientid)

\* C7: the sample ids of the loaded files are pairwise distinct, and the
\* persisted patientid table holds, in loading order, one row for each
\* loaded file, pairing the file's name with the sample id of its column.
C7_DistinctTraceableIds ==
  /\ \A j, k \in 1..Len(frames) : j # k => SampleIds[j] # SampleIds[k]
  /\ patientid.exists =>
       /\ Len(patientid.rows) = Len(tcga_files)
       /\ Len(frames) = Len(tcga_files)
       /\ \A k \in 1..Len(tcga_files) :
            /\ patientid.rows[k].File_Name = FileName(tcga_files[k])
            /\ patientid.rows[k].Patient_ID = SampleIds[k]

\* two loaded files whose names are equal up to hyphen versus underscore,
\* with their rows persisted
C7_Witness ==
  /\ patientid.exists
  /\ \E j, k \in 1..Len(tcga_files) :
       /\ j # k
       /\ Replace(FileName(tcga_files[j]), "-", "_")
            = Replace(FileName(tcga_files[k]), "-", "_")
       /\ patientid.rows[j].Patient_ID # patientid.rows[k].Patient_ID

\* ------------------------------------------------------------------------
\* create_mapping_db and create_clinical_db
\* ------------------------------------------------------------------------
\* a line of gdc_sample_sheet.2023-02-16.csv, reduced to the columns kept
SheetRow(case, fid, fname) == [Case_ID |-> case, File_ID |-> fid, File_Name |-> fname]

SheetRowUniverse ==
  { SheetRow("A", "f1", <<"a", "-", "4">> \o Suffix),
    SheetRow("B", "f2", <<"a", "-", "4">> \o Suffix),
    SheetRow("A", "f3", <<"c", "7">> \o Suffix),
    SheetRow("B", "f4", <<"c", "3">> \o Suffix),
    SheetRow("B", "f5", <<"n">> \o TxtExt) }

Sheets ==
  UNION { { s \in [1..n -> SheetRowUniverse] : \A j, k \in 1..n : j # k => s[j] # s[k] }
          : n \in 0..MaxSheet }

\* a line of clinical_data.csv, reduced to the columns the query reads
ClinicalRow(case, age, status) ==
  [case_submitter_id |-> case, age_at_index |-> age, vital_status |-> status]

ClinicalRowUniverse ==
  { ClinicalRow("A", 35, "Alive"),
    ClinicalRow("B", 35, "Dead"),
    ClinicalRow("B", 45, "Alive") }

Clinicals ==
  UNION { { s \in [1..n -> ClinicalRowUniverse] : \A j, k \in 1..n : j # k => s[j] # s[k] }
          : n \in 0..MaxClinical }

\* s.rstrip(chars): drop trailing characters while they belong to chars
RECURSIVE RStrip(_, _)
RStrip(s, chars) ==
  IF s # <<>> /\ s[Len(s)] \in chars
    THEN RStrip(SubSeq(s, 1, Len(s) - 1), chars)
    ELSE s

\* x.rstrip('.methylation_array.sesame.level3betas.txt')
StripFileName(x) == RStrip(x, Range(Suffix))

\* the frame written to idmap
MappingFrame(sh) ==
  [k \in 1..Len(sh) |->
     [Case_ID |-> sh[k].Case_ID, File_ID |-> sh[k].File_ID,
      File_Name |-> StripFileName(sh[k].File_Name)]]

\* connect, drop idmap, read the sample sheet
StartMapping ==
  /\ pc \in {"idle", "clinical_done"}
  /\ idmap' = NoRows
  /\ \E sh \in Sheets : sheet' = sh
  /\ pc' = "mapping"
  /\ UNCHANGED <<methylation, patientid, clinical_data>>
  /\ UNCHANGED ingestVars
  /\ UNCHANGED queryVars

\* rename and select the columns, strip the file names, write idmap
WriteIdmap ==
  /\ pc = "mapping"
  /\ idmap' = RowsToSql(MappingFrame(sheet))
  /\ pc' = "mapping_done"
  /\ UNCHANGED <<methylation, patientid, clinical_data, sheet>>
  /\ UNCHANGED ingestVars
  /\ UNCHANGED queryVars

\* create_clinical_db: drop clinical_data, read clinical_data.csv, write it
CreateClinical ==
  /\ pc = "mapping_done"
  /\ \E cl \in Clinicals : clinical_data' = RowsToSql(cl)
  /\ pc' = "clinical_done"
  /\ UNCHANGED <<methylation, patientid, idmap, sheet>>
  /\ UNCHANGED ingestVars
  /\ UNCHANGED queryVars

InitMapping == InitIngest

NextMapping ==
  \/ StartMapping
  \/ WriteIdmap
  \/ CreateClinical

SpecMapping == InitMapping /\ [][NextMapping]_vars

\* ------------------------------------------------------------------------
\* Properties of create_mapping_db
\* ------------------------------------------------------------------------
EndsWith(s, suf) ==
  Len(s) >= Len(suf) /\ SubSeq(s, Len(s) - Len(suf) + 1, Len(s)) = suf

\* C6: each stored File_Name is the raw name without the literal suffix
\* when the raw name ends with it, and the raw name itself otherwise.
C6_ExactSuffixStripped ==
  pc = "mapping_done" =>
    \A k \in 1..Len(sheet) :
      idmap.rows[k].File_Name =
        IF EndsWith(sheet[k].File_Name, Suffix)
          THEN SubSeq(sheet[k].File_Name, 1, Len(sheet[k].File_Name) - Len(Suffix))
          ELSE sheet[k].File_Name

\* C8: a persisted idmap table never holds one File_Name in two rows.
C8_FileNameUnique ==
  idmap.exists =>
    \A j, k \in 1..Len(idmap.rows) :
      j # k => idmap.rows[j].File_Name # idmap.rows[k].File_Name

\* ------------------------------------------------------------------------
\* The tables a completed build leaves in gdc.db
\* ------------------------------------------------------------------------
LoadedFrames(files) == [k \in 1..Len(files) |-> Frame(k - 1, files[k])]

LoadedPatientIds(files) ==
  [k \in 1..Len(files) |->
     [File_Name |-> FileName(files[k]), Patient_ID |-> PatientId(k - 1, files[k])]]

\* the merge loop from iteration n on
RECURSIVE MergeFrom(_, _, _)
MergeFrom(acc, fs, n) ==
  IF n >= Len(fs) THEN acc ELSE MergeFrom(Merge(acc, fs[n + 1]), fs, n + 1)

BuiltMethylation(files) ==
  ToSql(MergeFrom(LoadedFrames(files)[1], LoadedFrames(files), 0))

BuiltPatientId(files) == RowsToSql(LoadedPatientIds(files))

\* every selected file is read and at least one file is selected
Completes(all_files) ==
  /\ TcgaFiles(all_files) # <<>>
  /\ \A k \in 1..Len(TcgaFiles(all_files)) : TcgaFiles(all_files)[k].readable

\* the step-wise build ends in the tables computed above
BuiltTablesAgree ==
  pc = "done" =>
    /\ methylation = BuiltMethylation(tcga_files)
    /\ patientid = BuiltPatientId(tcga_files)

\* ------------------------------------------------------------------------
\* app.py: the query run when Submit is pressed
\* ------------------------------------------------------------------------
Ages == {40, 50}
Statuses == {"Alive", "Dead"}
Thresholds == {992, 999}

\* SELECT case_submitter_id FROM clinical_data
\*   WHERE age_at_index < AGE AND vital_status = VITAL_STATUS
SelectedCases(age, status) ==
  { clinical_data.rows[k].case_submitter_id : k \in
      { j \in 1..Len(clinical_data.rows) :
          /\ clinical_data.rows[j].age_at_index < age
          /\ clinical_data.rows[j].vital_status = status } }

\* SELECT File_Name FROM idmap WHERE Case_ID IN (...)
CandidateRows(age, status) ==
  LET hit == SelectSeq(idmap.rows, LAMBDA m : m.Case_ID \in SelectedCases(age, status))
  IN [k \in 1..Len(hit) |-> hit[k].File_Name]

\* SELECT Case_ID FROM idmap WHERE File_Name = file_name, first row fetched
CaseIdOf(file_name) ==
  SelectSeq(idmap.rows, LAMBDA m : m.File_Name = file_name)[1].Case_ID

\* SELECT Patient_ID FROM patientid WHERE File_Name = file_name
PatientRows(file_name) ==
  LET hit == SelectSeq(patientid.rows, LAMBDA m : m.File_Name = file_name)
  IN [k \in 1..Len(hit) |-> hit[k].Patient_ID]

\* position of the column named patient_id in methylation, 0 when there is none
ColumnOf(patient_id) ==
  IF \E c \in 2..Len(methylation.cols) : methylation.cols[c] = patient_id
    THEN CHOOSE c \in 2..Len(methylation.cols) : methylation.cols[c] = patient_id
    ELSE 0

\* the count with the comparison >=
CpgCount_AtLeast(c, cpg) ==
  Len(SelectSeq(methylation.rows, LAMBDA row : row[c] # NaN /\ row[c] >= cpg))

\* SELECT COUNT(*) FROM (SELECT ... FROM methylation WHERE <column> > CPG)
CpgCount(c, cpg) ==
  Len(SelectSeq(methylation.rows, LAMBDA row : row[c] # NaN /\ row[c] > cpg))

\* Submit pressed: the sliders are read and the first query is run
Submit ==
  /\ pc = "ready"
  /\ \E age \in Ages, status \in Statuses, cpg \in Thresholds :
       /\ AGE' = age
       /\ VITAL_STATUS' = status
       /\ CPG' = cpg
       /\ rows' = CandidateRows(age, status)
  /\ r' = 0
  /\ df_results' = <<>>
  /\ pc' = "loop"
  /\ UNCHANGED <<methylation, patientid, idmap, clinical_data, sheet>>
  /\ UNCHANGED ingestVars

\* one iteration of: for row in rows.  A patient id that names no column of
\* methylation makes sqlite raise 'no such column' and ends the run.
Candidate ==
  /\ pc = "loop"
  /\ r < Len(rows)
  /\ LET file_name == rows[r + 1]
         case_id == CaseIdOf(file_name)
         data == PatientRows(file_name)
     IN IF data = <<>>
          THEN /\ r' = r + 1
               /\ UNCHANGED <<pc, df_results>>
          ELSE LET patient_id == data[1]
                   c == ColumnOf(patient_id)
               IN IF c = 0
                    THEN /\ pc' = "error"
                         /\ UNCHANGED <<r, df_results>>
                    ELSE /\ r' = r + 1
                         /\ df_results' =
                              IF CpgCount(c, CPG) # 0
                                THEN Append(df_results,
                                       [Patient_ID |-> patient_id, Case_ID |-> case_id,
                                        CPG_Count |-> CpgCount(c, CPG)])
                                ELSE df_results
                         /\ UNCHANGED pc
  /\ UNCHANGED <<methylation, patientid, idmap, clinical_data, sheet, rows,
                 AGE, VITAL_STATUS, CPG>>
  /\ UNCHANGED ingestVars

\* the loop is over: conn.close() and st.write(df_results)
ShowResults ==
  /\ pc = "loop"
  /\ r = Len(rows)
  /\ pc' = "shown"
  /\ UNCHANGED <<methylation, patientid, idmap, clinical_data, sheet>>
  /\ UNCHANGED ingestVars
  /\ UNCHANGED queryVars

\* gdc.db as 'gdc_data_collector.py --build' leaves it when all three
\* create_* functions have completed
InitQuery ==
  /\ pc = "ready"
  /\ \E all_files \in FileLists :
       /\ Completes(all_files)
       /\ methylation = BuiltMethylation(TcgaFiles(all_files))
       /\ patientid = BuiltPatientId(TcgaFiles(all_files))
       /\ tcga_files = TcgaFiles(all_files)
  /\ \E sh \in Sheets : sheet = sh /\ idmap = RowsToSql(MappingFrame(sh))
  /\ \E cl \in Clinicals : clinical_data = RowsToSql(cl)
  /\ i = Len(tcga_files)
  /\ frames = LoadedFrames(tcga_files)
  /\ df_patid = LoadedPatientIds(tcga_files)
  /\ df = MergeFrom(frames[1], frames, 0)
  /\ committed = [methylation |-> methylation, patientid |-> patientid]
  /\ NoQuery

NextQuery ==
  \/ Submit
  \/ Candidate
  \/ ShowResults

SpecQuery == InitQuery /\ [][NextQuery]_vars

\* ------------------------------------------------------------------------
\* Properties of the query
\* ------------------------------------------------------------------------
\* candidate k has a patient id in patientid / and a column in methylation
HasPatient(k) == PatientRows(rows[k]) # <<>>
PidAt(k) == PatientRows(rows[k])[1]
Resolved(k) == HasPatient(k) /\ ColumnOf(PidAt(k)) # 0

\* the location keys whose value in the column of patient_id exceeds CPG
KeysAbove(patient_id) ==
  { methylation.rows[j][1] : j \in
      { n \in 1..Len(methylation.rows) :
          /\ methylation.rows[n][ColumnOf(patient_id)] # NaN
          /\ methylation.rows[n][ColumnOf(patient_id)] > CPG } }

ResultsFor(patient_id) ==
  { n \in 1..Len(df_results) : df_results[n].Patient_ID = patient_id }

\* C4: for every candidate processed whose patient has a column, the result
\* frame holds a row for that patient exactly when some location of the
\* column is strictly above the threshold, and every such row carries the
\* number of those locations; equal and missing values are not counted.
C4_ExactStrictCount ==
  \A k \in 1..r :
    Resolved(k) =>
      /\ (ResultsFor(PidAt(k)) # {}) <=> (Cardinality(KeysAbove(PidAt(k))) > 0)
      /\ \A n \in ResultsFor(PidAt(k)) :
           df_results[n].CPG_Count = Cardinality(KeysAbove(PidAt(k)))

\* a processed patient whose column holds a value equal to the threshold
\* and a value above it, reported with the count of the latter only
C4_Witness ==
  /\ pc = "shown"
  /\ \E k \in 1..r :
       /\ Resolved(k)
       /\ \E n \in 1..Len(methylation.rows) :
            methylation.rows[n][ColumnOf(PidAt(k))] = CPG
       /\ \E n \in ResultsFor(PidAt(k)) :
            /\ df_results[n].CPG_Count = Cardinality(KeysAbove(PidAt(k)))
            /\ df_results[n].CPG_Count < Len(methylation.rows)

\* C5: a candidate whose patient id names no column of methylation does not
\* end the query with an error.
C5_MissingColumnSkipped ==
  (r < Len(rows) /\ HasPatient(r + 1) /\ ColumnOf(PidAt(r + 1)) = 0)
    => pc # "error"

\* C9: when the query has ended, every candidate file name whose patient
\* column has a count above 0 has its own result row, and a selected case
\* without file names has none.
C9_EachFileOwnRow ==
  pc \in {"shown", "error"} =>
    /\ \A k \in 1..Len(rows) :
         (Resolved(k) /\ KeysAbove(PidAt(k)) # {}) =>
           Cardinality(ResultsFor(PidAt(k)))
             = Cardinality({j \in 1..Len(rows) : Resolved(j) /\ PidAt(j) = PidAt(k)})
    /\ \A case \in SelectedCases(AGE, VITAL_STATUS) :
         (\A m \in Range(idmap.rows) : m.Case_ID # case) =>
           \A n \in 1..Len(df_results) : df_results[n].Case_ID # case

\* the same for queries that ran to the end
C9_CompletedQuery ==
  pc = "shown" =>
    \A k \in 1..Len(rows) :
      (Resolved(k) /\ KeysAbove(PidAt(k)) # {}) =>
        Cardinality(ResultsFor(PidAt(k)))
          = Cardinality({j \in 1..Len(rows) : Resolved(j) /\ PidAt(j) = PidAt(k)})

\* C10: the case id of every result row passes the demographic filter and
\* stands in idmap next to the file name whose patient column was counted.
C10_CaseIdPassesFilter ==
  \A n \in 1..Len(df_results) :
    /\ df_results[n].Case_ID \in SelectedCases(AGE, VITAL_STATUS)
    /\ \E m \in Range(idmap.rows) :
         /\ m.Case_ID = df_results[n].Case_ID
         /\ PatientRows(m.File_Name) # <<>>
         /\ PatientRows(m.File_Name)[1] = df_results[n].Patient_ID
====
